---- MODULE Spec2Model ----
(***************************************************************************)
(* Model of the fact retrieval module of the lesson generation pipeline:   *)
(* app/services/fact_retrieval.py.  One invocation of retrieve_facts runs  *)
(* step by step; each backend query is one step whose response is chosen   *)
(* by the environment.                                                      *)
(*                                                                         *)
(* Text is modelled as follows.  A query is a sequence of phrases whose    *)
(* text is their characters joined by spaces; lower-casing and the         *)
(* substring test `indicator in query_lower` work on the characters.  A    *)
(* summary text is modelled by its length, which is all that               *)
(* retrieve_facts reads of it.                                             *)
(***************************************************************************)
EXTENDS Integers, Sequences, FiniteSets, TLC

(***************************************************************************)
(* Bounds of the model.                                                    *)
(***************************************************************************)
MaxQueryLen == 2
MaxResults == 1
NumThreads == 2
MaxSlides == 2

(***************************************************************************)
(* Program constants.                                                      *)
(***************************************************************************)
max_chars == 1000
SufficientLen == 100

(***************************************************************************)
(* Python values: None, the empty dict {}, and dict truthiness.            *)
(***************************************************************************)
None == [kind |-> "None"]
EmptyDict == [kind |-> "dict", keys |-> {}]
Truthy(d) == d # None /\ d # EmptyDict

Min(a, b) == IF a < b THEN a ELSE b

(***************************************************************************)
(* class RetrievalLayer                                                    *)
(***************************************************************************)
WIKIPEDIA == "wikipedia"
BRAVE == "brave"
TAVILY == "tavily"
RetrievalLayer == {WIKIPEDIA, BRAVE, TAVILY}

(***************************************************************************)
(* class FactRetrievalResult: the constructor with its two defaults.       *)
(***************************************************************************)
DefaultConfidence == "medium"
DefaultNeedsVerification_True == TRUE
DefaultNeedsVerification == FALSE
FactRetrievalResult(success, data, layer_used, confidence, needs_verification) ==
    [kind |-> "FactRetrievalResult",
     success |-> success,
     data |-> data,
     layer_used |-> layer_used,
     confidence |-> confidence,
     needs_verification |-> needs_verification]

(***************************************************************************)
(* Text.  A Python str is a sequence of characters; Chars gives the        *)
(* characters of each string literal the model uses, Lower is str.lower()  *)
(* on one character and IsSubstring is the `in` operator on two strs.      *)
(***************************************************************************)
Chars(s) ==
    CASE s = "What is" ->
            <<"W", "h", "a", "t", " ", "i", "s">>
      [] s = "Compare" ->
            <<"C", "o", "m", "p", "a", "r", "e">>
      [] s = "2025" ->
            <<"2", "0", "2", "5">>
      [] s = "fusion energy" ->
            <<"f", "u", "s", "i", "o", "n", " ", "e", "n", "e", "r", "g", "y">>
      [] s = "RECENTLY" ->
            <<"R", "E", "C", "E", "N", "T", "L", "Y">>
      [] s = "who" ->
            <<"w", "h", "o">>
      [] s = "is" ->
            <<"i", "s">>
      [] s = "what is" ->
            <<"w", "h", "a", "t", " ", "i", "s">>
      [] s = "who is" ->
            <<"w", "h", "o", " ", "i", "s">>
      [] s = "definition of" ->
            <<"d", "e", "f", "i", "n", "i", "t", "i", "o", "n", " ", "o", "f">>
      [] s = "meaning of" ->
            <<"m", "e", "a", "n", "i", "n", "g", " ", "o", "f">>
      [] s = "explain" ->
            <<"e", "x", "p", "l", "a", "i", "n">>
      [] s = "describe" ->
            <<"d", "e", "s", "c", "r", "i", "b", "e">>
      [] s = "introduction to" ->
            <<"i", "n", "t", "r", "o", "d", "u", "c", "t", "i", "o", "n", " ", "t", "o">>
      [] s = "compare" ->
            <<"c", "o", "m", "p", "a", "r", "e">>
      [] s = "contrast" ->
            <<"c", "o", "n", "t", "r", "a", "s", "t">>
      [] s = "why" ->
            <<"w", "h", "y">>
      [] s = "analyze" ->
            <<"a", "n", "a", "l", "y", "z", "e">>
      [] s = "evaluate" ->
            <<"e", "v", "a", "l", "u", "a", "t", "e">>
      [] s = "pros and cons" ->
            <<"p", "r", "o", "s", " ", "a", "n", "d", " ", "c", "o", "n", "s">>
      [] s = "advantages and disadvantages" ->
            <<"a", "d", "v", "a", "n", "t", "a", "g", "e", "s", " ", "a", "n", "d", " ", "d", "i", "s", "a", "d", "v", "a", "n", "t", "a", "g", "e", "s">>
      [] s = "debate" ->
            <<"d", "e", "b", "a", "t", "e">>
      [] s = "controversy" ->
            <<"c", "o", "n", "t", "r", "o", "v", "e", "r", "s", "y">>
      [] s = "impact" ->
            <<"i", "m", "p", "a", "c", "t">>
      [] s = "implications" ->
            <<"i", "m", "p", "l", "i", "c", "a", "t", "i", "o", "n", "s">>
      [] s = "recent" ->
            <<"r", "e", "c", "e", "n", "t">>
      [] s = "latest" ->
            <<"l", "a", "t", "e", "s", "t">>
      [] s = "current" ->
            <<"c", "u", "r", "r", "e", "n", "t">>
      [] s = "2024" ->
            <<"2", "0", "2", "4">>
      [] s = "2026" ->
            <<"2", "0", "2", "6">>

Lower(c) ==
    CASE c = "A" -> "a"
      [] c = "B" -> "b"
      [] c = "C" -> "c"
      [] c = "D" -> "d"
      [] c = "E" -> "e"
      [] c = "F" -> "f"
      [] c = "G" -> "g"
      [] c = "H" -> "h"
      [] c = "I" -> "i"
      [] c = "J" -> "j"
      [] c = "K" -> "k"
      [] c = "L" -> "l"
      [] c = "M" -> "m"
      [] c = "N" -> "n"
      [] c = "O" -> "o"
      [] c = "P" -> "p"
      [] c = "Q" -> "q"
      [] c = "R" -> "r"
      [] c = "S" -> "s"
      [] c = "T" -> "t"
      [] c = "U" -> "u"
      [] c = "V" -> "v"
      [] c = "W" -> "w"
      [] c = "X" -> "x"
      [] c = "Y" -> "y"
      [] c = "Z" -> "z"
      [] OTHER -> c

IsSubstring(needle, hay) ==
    \E k \in 0..(Len(hay) - Len(needle)) :
        \A i \in 1..Len(needle) : hay[k + i] = needle[i]

(***************************************************************************)
(* Queries.  A query is given by its phrases; its text is the phrases      *)
(* separated by single spaces.                                             *)
(***************************************************************************)
Phrases == {"What is", "Compare", "2025", "fusion energy", "RECENTLY", "who", "is"}
QueriesOfLen(n) == [1..n -> Phrases]
Queries == UNION {QueriesOfLen(n) : n \in 1..MaxQueryLen}
Contexts == {None, EmptyDict, [kind |-> "dict", keys |-> {"complexity"}, complexity |-> "simple"]}

RECURSIVE Text(_)
Text(query) ==
    IF Len(query) = 0 THEN <<>>
    ELSE IF Len(query) = 1 THEN Chars(query[1])
    ELSE Chars(query[1]) \o <<" ">> \o Text(Tail(query))

simple_indicators ==
    {"what is", "who is", "definition of", "meaning of", "explain", "describe",
     "introduction to"}
complex_indicators ==
    {"compare", "contrast", "why", "analyze", "evaluate", "pros and cons",
     "advantages and disadvantages", "debate", "controversy", "impact",
     "implications", "recent", "latest", "current", "2024", "2025", "2026"}

query_lower(query) ==
    LET text == Text(query) IN [i \in 1..Len(text) |-> Lower(text[i])]
Contains(text, indicator) == IsSubstring(Chars(indicator), text)

determine_complexity_SimpleFirst(query, context) ==
    IF \E indicator \in simple_indicators : Contains(query_lower(query), indicator)
    THEN "simple"
    ELSE IF \E indicator \in complex_indicators : Contains(query_lower(query), indicator)
         THEN "complex"
         ELSE "moderate"
determine_complexity(query, context) ==
    IF \E indicator \in complex_indicators : Contains(query_lower(query), indicator)
    THEN "complex"
    ELSE IF \E indicator \in simple_indicators : Contains(query_lower(query), indicator)
         THEN "simple"
         ELSE "moderate"

(***************************************************************************)
(* Backends.  A response describes what the remote service does; each      *)
(* retrieve_from_* operator runs the body of the function on it and then   *)
(* its except clauses.  The outcome is [data, exc, raised]: the value      *)
(* returned, the exception class the body raised ("none" if it did not)    *)
(* and whether that exception leaves the function.                         *)
(***************************************************************************)
RequestExceptions == {"Timeout", "ConnectionError", "HTTPError"}
JSONDecodeErrors == {"JSONDecodeError"}
OtherExceptions == {"AttributeError", "KeyError", "TypeError", "RuntimeError"}
Exceptions == RequestExceptions \cup JSONDecodeErrors \cup OtherExceptions

Returned(data) == [data |-> data, exc |-> "none", raised |-> FALSE]
Handled(exc, caught) ==
    [data |-> None, exc |-> exc, raised |-> exc \notin caught]

HttpOutcomes == {"ok", "timeout", "connection_error", "http_error", "non_json", "bad_shape"}
HttpException(o) ==
    CASE o = "timeout" -> "Timeout"
      [] o = "connection_error" -> "ConnectionError"
      [] o = "http_error" -> "HTTPError"
      [] o = "non_json" -> "JSONDecodeError"
      [] o = "bad_shape" -> "AttributeError"
      [] OTHER -> "none"

ExtractLens ==
    {0, 40, SufficientLen, SufficientLen + 1, 250, max_chars, max_chars + 200}
ExtractValues == ExtractLens \cup {-1}
\* A response is what the two requests meet: the search request's outcome,
\* the number of search hits, the summary request's outcome and the extract
\* (its length, or -1 for a JSON value that cannot be sliced).  Fields after
\* the point where the function stops are not read and are held fixed.
WikipediaResponses ==
    {r \in [search : HttpOutcomes, hits : 0..1, content : HttpOutcomes,
            extract : ExtractValues] :
        /\ (r.search # "ok" => r.hits = 0)
        /\ (r.hits = 0 => r.content = "ok")
        /\ (r.hits = 0 \/ r.content # "ok" => r.extract = 0)}

WikipediaCaught_NoCatchAll == RequestExceptions \cup JSONDecodeErrors
WikipediaCaught == RequestExceptions \cup JSONDecodeErrors \cup Exceptions

retrieve_from_wikipedia(resp) ==
    IF resp.search # "ok" THEN Handled(HttpException(resp.search), WikipediaCaught)
    ELSE IF resp.hits = 0 THEN Returned(None)
    ELSE IF resp.content # "ok" THEN Handled(HttpException(resp.content), WikipediaCaught)
    ELSE IF resp.extract < 0 THEN Handled("TypeError", WikipediaCaught)
    ELSE Returned([kind |-> "dict",
                   keys |-> {"title", "summary", "url", "source", "type"},
                   source |-> "Wikipedia",
                   summary |-> Min(resp.extract, max_chars)])

BraveResponses == {"unused"}
\* The implementation that is commented out at lines 143-186, with a key set.
retrieve_from_brave_Enabled(resp) ==
    Returned([kind |-> "dict",
              keys |-> {"results", "query", "source", "count"},
              source |-> "Brave Search",
              count |-> 0])
retrieve_from_brave(resp) == Returned(None)

TavilyOutcomes == {"ok", "timeout", "bad_shape", "client_error"}
TavilyException(o) ==
    CASE o = "timeout" -> "Timeout"
      [] o = "bad_shape" -> "AttributeError"
      [] o = "client_error" -> "RuntimeError"
      [] OTHER -> "none"
TavilyResponses ==
    {r \in [api_key : BOOLEAN, search : TavilyOutcomes, count : 0..MaxResults] :
        /\ (~r.api_key => r.search = "ok")
        /\ (~r.api_key \/ r.search # "ok" => r.count = 0)}

TavilyCaught == Exceptions

retrieve_from_tavily(resp) ==
    IF ~resp.api_key THEN Returned(None)
    ELSE IF resp.search # "ok" THEN Handled(TavilyException(resp.search), TavilyCaught)
    ELSE Returned([kind |-> "dict",
                   keys |-> {"results", "query", "source", "answer", "count"},
                   source |-> "Tavily",
                   count |-> resp.count])

(***************************************************************************)
(* retrieve_facts: the pieces of its decision logic.                       *)
(***************************************************************************)
NoLayer == "None"
ForceLayers == RetrievalLayer \cup {NoLayer}

Responses(layer) ==
    CASE layer = WIKIPEDIA -> WikipediaResponses
      [] layer = BRAVE -> BraveResponses
      [] layer = TAVILY -> TavilyResponses

Retrieve(layer, resp) ==
    CASE layer = WIKIPEDIA -> retrieve_from_wikipedia(resp)
      [] layer = BRAVE -> retrieve_from_brave(resp)
      [] layer = TAVILY -> retrieve_from_tavily(resp)

\* The backend each branch of the force_layer dispatch calls.
ForceBackend_BraveViaTavily(layer) == IF layer = BRAVE THEN TAVILY ELSE layer
ForceBackend(layer) == layer

ForceResult_DefaultConfidence(layer, data) ==
    IF Truthy(data)
    THEN FactRetrievalResult(TRUE, data, layer, "high", DefaultNeedsVerification)
    ELSE FactRetrievalResult(FALSE, EmptyDict, layer, DefaultConfidence,
                             DefaultNeedsVerification)
ForceResult_KeepsData(layer, data) ==
    IF Truthy(data)
    THEN FactRetrievalResult(TRUE, data, layer, "high", DefaultNeedsVerification)
    ELSE FactRetrievalResult(FALSE, data, layer, "low", DefaultNeedsVerification)
ForceResult(layer, data) ==
    IF layer = WIKIPEDIA /\ Truthy(data)
    THEN FactRetrievalResult(TRUE, data, WIKIPEDIA, "high", DefaultNeedsVerification)
    ELSE IF layer = BRAVE /\ Truthy(data)
    THEN FactRetrievalResult(TRUE, data, BRAVE, "medium", DefaultNeedsVerification)
    ELSE IF layer = TAVILY /\ Truthy(data)
    THEN FactRetrievalResult(TRUE, data, TAVILY, "high", DefaultNeedsVerification)
    ELSE FactRetrievalResult(FALSE, EmptyDict, layer, "low", DefaultNeedsVerification)

SimpleSufficient_MaxChars(wiki) == Truthy(wiki) /\ wiki.summary >= max_chars
SimpleSufficient(wiki) == Truthy(wiki) /\ wiki.summary > SufficientLen

Combined(primary, synthesis) ==
    [kind |-> "dict",
     keys |-> {"primary", "synthesis", "combined"},
     primary |-> primary,
     synthesis |-> synthesis,
     combined |-> TRUE]

SimpleWikipediaResult_Unverified(wiki) ==
    FactRetrievalResult(TRUE, wiki, WIKIPEDIA, "medium", TRUE)
SimpleWikipediaResult(wiki) ==
    FactRetrievalResult(TRUE, wiki, WIKIPEDIA, "high", FALSE)

SimpleTavilyResult_Combined(wiki, tavily) ==
    FactRetrievalResult(TRUE, Combined(IF Truthy(wiki) THEN wiki ELSE EmptyDict, tavily),
                        TAVILY, "high", FALSE)
SimpleTavilyResult(wiki, tavily) ==
    FactRetrievalResult(TRUE, tavily, TAVILY, "high", FALSE)

ModerateResult_DirectHigh(wiki, tavily) ==
    IF Truthy(wiki)
    THEN IF Truthy(tavily)
         THEN FactRetrievalResult(TRUE, Combined(wiki, tavily), TAVILY, "high", FALSE)
         ELSE FactRetrievalResult(TRUE, wiki, WIKIPEDIA, "medium", TRUE)
    ELSE IF Truthy(tavily)
         THEN FactRetrievalResult(TRUE, tavily, TAVILY, "high", FALSE)
         ELSE None
ModerateResult_PrimaryTrusted(wiki, tavily) ==
    IF Truthy(wiki)
    THEN IF Truthy(tavily)
         THEN FactRetrievalResult(TRUE, Combined(wiki, tavily), TAVILY, "high", FALSE)
         ELSE FactRetrievalResult(TRUE, wiki, WIKIPEDIA, "medium", DefaultNeedsVerification)
    ELSE IF Truthy(tavily)
         THEN FactRetrievalResult(TRUE, tavily, TAVILY, "medium", FALSE)
         ELSE None
ModerateResult_SynthesisOnly(wiki, tavily) ==
    IF Truthy(wiki)
    THEN IF Truthy(tavily)
         THEN FactRetrievalResult(TRUE, tavily, TAVILY, "high", FALSE)
         ELSE FactRetrievalResult(TRUE, wiki, WIKIPEDIA, "medium", TRUE)
    ELSE IF Truthy(tavily)
         THEN FactRetrievalResult(TRUE, tavily, TAVILY, "medium", FALSE)
         ELSE None
ModerateResult(wiki, tavily) ==
    IF Truthy(wiki)
    THEN IF Truthy(tavily)
         THEN FactRetrievalResult(TRUE, Combined(wiki, tavily), TAVILY, "high", FALSE)
         ELSE FactRetrievalResult(TRUE, wiki, WIKIPEDIA, "medium", TRUE)
    ELSE IF Truthy(tavily)
         THEN FactRetrievalResult(TRUE, tavily, TAVILY, "medium", FALSE)
         ELSE None

ComplexResult_PrimaryNone(wiki, tavily) ==
    IF Truthy(tavily)
    THEN FactRetrievalResult(TRUE, Combined(wiki, tavily), TAVILY, "high", FALSE)
    ELSE IF Truthy(wiki)
         THEN FactRetrievalResult(TRUE, wiki, WIKIPEDIA, "low", TRUE)
         ELSE None
ComplexResult_PrimaryMedium(wiki, tavily) ==
    IF Truthy(tavily)
    THEN FactRetrievalResult(TRUE,
                             Combined(IF Truthy(wiki) THEN wiki ELSE EmptyDict, tavily),
                             TAVILY, "high", FALSE)
    ELSE IF Truthy(wiki)
         THEN FactRetrievalResult(TRUE, wiki, WIKIPEDIA, "medium", TRUE)
         ELSE None
ComplexResult(wiki, tavily) ==
    IF Truthy(tavily)
    THEN FactRetrievalResult(TRUE,
                             Combined(IF Truthy(wiki) THEN wiki ELSE EmptyDict, tavily),
                             TAVILY, "high", FALSE)
    ELSE IF Truthy(wiki)
         THEN FactRetrievalResult(TRUE, wiki, WIKIPEDIA, "low", TRUE)
         ELSE None

FallbackResult_Defaults ==
    FactRetrievalResult(FALSE, EmptyDict, WIKIPEDIA, DefaultConfidence,
                        DefaultNeedsVerification)
FallbackResult_Brave ==
    FactRetrievalResult(FALSE, EmptyDict, BRAVE, "none", TRUE)
FallbackResult ==
    FactRetrievalResult(FALSE, EmptyDict, WIKIPEDIA, "none", TRUE)

(***************************************************************************)
(* State of one invocation of retrieve_facts.                              *)
(*   pc          position in retrieve_facts                                *)
(*   query, context, force_layer   the arguments                           *)
(*   complexity  the local of that name                                    *)
(*   wiki_data, tavily_data        the locals of that name                 *)
(*   queried     the backend calls made so far, in order, each with the    *)
(*               value it returned and the exception its body raised       *)
(*   result      the value returned to the caller (None until then)        *)
(*   previous    what the caller kept of its last call when it is about to *)
(*               repeat it: the query, what each source returned, and the  *)
(*               result (None otherwise)                                   *)
(***************************************************************************)
VARIABLES pc, query, context, force_layer, complexity, wiki_data, tavily_data,
          queried, result, previous

(***************************************************************************)
(* Invocations running concurrently, one per thread.                       *)
(*   threads[t]  thread t's position in retrieve_facts, its arguments      *)
(*               (force_layer and the complexity of its query), what each  *)
(*               source returned to it, and the result it got              *)
(*   frames[f]   the local variables data, wiki_data and tavily_data of    *)
(*               the frame f of retrieve_facts                             *)
(***************************************************************************)
VARIABLES threads, frames

(***************************************************************************)
(* The caller that formats a result for the prompt (lines 495-503).        *)
(*   formatted   the result handed to format_for_llm and what the function *)
(*               returned for it (None while nothing is being formatted)   *)
(***************************************************************************)
VARIABLES formatted

(***************************************************************************)
(* One run of compiled_graph (langgraphflow.py).                           *)
(*   run_pc      "idle", "running", "ended" (END reached) or "raised"      *)
(*   active      the nodes due in the next step of the run                 *)
(*   ran         the nodes that have run, in order                         *)
(*   tutor_state the keys of the TutorState the nodes hand on              *)
(***************************************************************************)
VARIABLES run_pc, active, ran, tutor_state

(***************************************************************************)
(* One call of generate_narrations_batch (narration_node.py).              *)
(*   nar_pc      the position in the function                              *)
(*   slides      the slides argument, as the slides' ids                   *)
(*   batch       what the batch call to the model gave                     *)
(*   results     the list the running pass has built                       *)
(*   regeneration_count  the counter of lines 356-393                      *)
(*   llm_raised  whether a model call of this invocation has raised        *)
(***************************************************************************)
VARIABLES nar_pc, slides, batch, results, regeneration_count, llm_raised

formatting == <<formatted>>
workflow == <<run_pc, active, ran, tutor_state>>
narration == <<nar_pc, slides, batch, results, regeneration_count, llm_raised>>
others == <<formatting, workflow, narration>>

single == <<pc, query, context, force_layer, complexity, wiki_data, tavily_data,
            queried, result, previous>>

vars == <<pc, query, context, force_layer, complexity, wiki_data, tavily_data,
          queried, result, previous, threads, frames, formatted, run_pc, active,
          ran, tutor_state, nar_pc, slides, batch, results, regeneration_count,
          llm_raised>>

Threads == 1..NumThreads

\* The frame that holds the locals of thread t's invocation: a Python call
\* creates a frame of its own.
Frame_ModuleGlobals(t) == 1
Frame(t) == t

NoReturns == [wikipedia |-> None, brave |-> None, tavily |-> None]
IdleThread ==
    [pc |-> "idle", force_layer |-> NoLayer, complexity |-> "none",
     returned |-> NoReturns, result |-> None]
NewFrame == [data |-> None, wiki_data |-> None, tavily_data |-> None]

args == <<query, context, force_layer, complexity>>

Call(layer, data, exc) == [layer |-> layer, data |-> data, exc |-> exc]

Init ==
    /\ pc = "idle"
    /\ query = <<>>
    /\ context = EmptyDict
    /\ force_layer = NoLayer
    /\ complexity = "none"
    /\ wiki_data = None
    /\ tavily_data = None
    /\ queried = <<>>
    /\ result = None
    /\ previous = None
    /\ threads = [t \in Threads |-> IdleThread]
    /\ frames = [t \in Threads |-> NewFrame]
    /\ formatted = None
    /\ run_pc = "idle"
    /\ active = {}
    /\ ran = <<>>
    /\ tutor_state = {}
    /\ nar_pc = "idle"
    /\ slides = <<>>
    /\ batch = None
    /\ results = <<>>
    /\ regeneration_count = 0
    /\ llm_raised = FALSE

\* The caller invokes retrieve_facts(q, c, f): lines 297-303 and the
\* dispatch on complexity.
Invoke ==
    /\ pc = "idle"
    /\ \E q \in Queries, c \in Contexts, f \in ForceLayers :
          /\ query' = q
          /\ context' = (IF Truthy(c) THEN c ELSE EmptyDict)
          /\ force_layer' = f
          /\ complexity' = determine_complexity(q, context')
          /\ pc' = IF f # NoLayer THEN "force" ELSE complexity'
    /\ wiki_data' = None
    /\ tavily_data' = None
    /\ queried' = <<>>
    /\ result' = None
    /\ UNCHANGED <<previous, threads, frames, others>>

\* An exception leaves a backend function and so retrieve_facts.
Propagate ==
    /\ pc' = "raised"
    /\ result' = None

Return(r) ==
    /\ pc' = "done"
    /\ result' = r

\* Lines 303-318.
Force ==
    /\ pc = "force"
    /\ \E resp \in Responses(ForceBackend(force_layer)) :
          LET out == Retrieve(ForceBackend(force_layer), resp) IN
          /\ queried' = Append(queried,
                               Call(ForceBackend(force_layer), out.data, out.exc))
          /\ IF out.raised THEN Propagate
             ELSE Return(ForceResult(force_layer, out.data))
    /\ UNCHANGED <<args, previous, threads, frames, others, wiki_data, tavily_data>>

\* Lines 321-336.
SimpleWikipedia ==
    /\ pc = "simple"
    /\ \E resp \in WikipediaResponses :
          LET out == retrieve_from_wikipedia(resp) IN
          /\ queried' = Append(queried, Call(WIKIPEDIA, out.data, out.exc))
          /\ wiki_data' = out.data
          /\ IF out.raised THEN Propagate
             ELSE IF SimpleSufficient(out.data)
                  THEN Return(SimpleWikipediaResult(out.data))
                  ELSE pc' = "simple_tavily" /\ result' = result
    /\ UNCHANGED <<args, previous, threads, frames, others, tavily_data>>

\* Lines 337-346.
SimpleTavily ==
    /\ pc = "simple_tavily"
    /\ \E resp \in TavilyResponses :
          LET out == retrieve_from_tavily(resp) IN
          /\ queried' = Append(queried, Call(TAVILY, out.data, out.exc))
          /\ tavily_data' = out.data
          /\ IF out.raised THEN Propagate
             ELSE IF Truthy(out.data)
                  THEN Return(SimpleTavilyResult(wiki_data, out.data))
                  ELSE pc' = "fallback" /\ result' = result
    /\ UNCHANGED <<args, previous, threads, frames, others, wiki_data>>

\* Lines 349-353 and 381-383.
ModerateWikipedia ==
    /\ pc = "moderate"
    /\ \E resp \in WikipediaResponses :
          LET out == retrieve_from_wikipedia(resp) IN
          /\ queried' = Append(queried, Call(WIKIPEDIA, out.data, out.exc))
          /\ wiki_data' = out.data
          /\ IF out.raised THEN Propagate
             ELSE /\ pc' = IF Truthy(out.data) THEN "moderate_verify"
                                               ELSE "moderate_direct"
                  /\ result' = result
    /\ UNCHANGED <<args, previous, threads, frames, others, tavily_data>>

\* ModerateVerify with a budget of paid calls kept between invocations: once
\* an earlier invocation has called DEEP, DEEP is not called again.
ModerateVerify_PaidBudget ==
    /\ pc = "moderate_verify"
    /\ IF previous # None /\ (\E j \in DOMAIN previous.returned :
                                 previous.returned[j].layer = TAVILY)
       THEN /\ Return(ModerateResult(wiki_data, None))
            /\ UNCHANGED <<queried, tavily_data>>
       ELSE \E resp \in TavilyResponses :
               LET out == retrieve_from_tavily(resp) IN
               /\ queried' = Append(queried, Call(TAVILY, out.data, out.exc))
               /\ tavily_data' = out.data
               /\ IF out.raised THEN Propagate
                  ELSE Return(ModerateResult(wiki_data, out.data))
    /\ UNCHANGED <<args, previous, threads, frames, others, wiki_data>>

\* Lines 356-380: PRIMARY gave data, DEEP verifies.
ModerateVerify ==
    /\ pc = "moderate_verify"
    /\ \E resp \in TavilyResponses :
          LET out == retrieve_from_tavily(resp) IN
          /\ queried' = Append(queried, Call(TAVILY, out.data, out.exc))
          /\ tavily_data' = out.data
          /\ IF out.raised THEN Propagate
             ELSE Return(ModerateResult(wiki_data, out.data))
    /\ UNCHANGED <<args, previous, threads, frames, others, wiki_data>>

\* ModerateDirect with the PRIMARY backend called a second time where the
\* code calls DEEP.
ModerateDirect_RetriesWikipedia ==
    /\ pc = "moderate_direct"
    /\ \E resp \in WikipediaResponses :
          LET out == retrieve_from_wikipedia(resp) IN
          /\ queried' = Append(queried, Call(WIKIPEDIA, out.data, out.exc))
          /\ tavily_data' = out.data
          /\ IF out.raised THEN Propagate
             ELSE IF Truthy(out.data)
                  THEN Return(ModerateResult(wiki_data, out.data))
                  ELSE pc' = "fallback" /\ result' = result
    /\ UNCHANGED <<args, previous, threads, frames, others, wiki_data>>

\* Lines 384-392: PRIMARY gave nothing, DEEP alone.
ModerateDirect ==
    /\ pc = "moderate_direct"
    /\ \E resp \in TavilyResponses :
          LET out == retrieve_from_tavily(resp) IN
          /\ queried' = Append(queried, Call(TAVILY, out.data, out.exc))
          /\ tavily_data' = out.data
          /\ IF out.raised THEN Propagate
             ELSE IF Truthy(out.data)
                  THEN Return(ModerateResult(wiki_data, out.data))
                  ELSE pc' = "fallback" /\ result' = result
    /\ UNCHANGED <<args, previous, threads, frames, others, wiki_data>>

\* ComplexWikipedia with DEEP skipped when PRIMARY gave nothing.
ComplexWikipedia_ShortCircuit ==
    /\ pc = "complex"
    /\ \E resp \in WikipediaResponses :
          LET out == retrieve_from_wikipedia(resp) IN
          /\ queried' = Append(queried, Call(WIKIPEDIA, out.data, out.exc))
          /\ wiki_data' = out.data
          /\ IF out.raised THEN Propagate
             ELSE /\ pc' = IF Truthy(out.data) THEN "complex_tavily" ELSE "fallback"
                  /\ result' = result
    /\ UNCHANGED <<args, previous, threads, frames, others, tavily_data>>

\* Lines 395-397.
ComplexWikipedia ==
    /\ pc = "complex"
    /\ \E resp \in WikipediaResponses :
          LET out == retrieve_from_wikipedia(resp) IN
          /\ queried' = Append(queried, Call(WIKIPEDIA, out.data, out.exc))
          /\ wiki_data' = out.data
          /\ IF out.raised THEN Propagate
             ELSE pc' = "complex_tavily" /\ result' = result
    /\ UNCHANGED <<args, previous, threads, frames, others, tavily_data>>

\* Lines 398-422.
ComplexTavily ==
    /\ pc = "complex_tavily"
    /\ \E resp \in TavilyResponses :
          LET out == retrieve_from_tavily(resp) IN
          /\ queried' = Append(queried, Call(TAVILY, out.data, out.exc))
          /\ tavily_data' = out.data
          /\ IF out.raised THEN Propagate
             ELSE IF ComplexResult(wiki_data, out.data) # None
                  THEN Return(ComplexResult(wiki_data, out.data))
                  ELSE pc' = "fallback" /\ result' = result
    /\ UNCHANGED <<args, previous, threads, frames, others, wiki_data>>

\* Lines 424-432.
Fallback ==
    /\ pc = "fallback"
    /\ Return(FallbackResult)
    /\ UNCHANGED <<args, previous, threads, frames, others, wiki_data, tavily_data, queried>>

\* The caller has read the result (or caught the exception) and is ready
\* for its next call.
Finish ==
    /\ pc \in {"done", "raised"}
    /\ pc' = "idle"
    /\ query' = <<>>
    /\ context' = EmptyDict
    /\ force_layer' = NoLayer
    /\ complexity' = "none"
    /\ wiki_data' = None
    /\ tavily_data' = None
    /\ queried' = <<>>
    /\ result' = None
    /\ previous' = None
    /\ UNCHANGED <<threads, frames, others>>

Next ==
    \/ Invoke
    \/ Force
    \/ SimpleWikipedia
    \/ SimpleTavily
    \/ ModerateWikipedia
    \/ ModerateVerify
    \/ ModerateDirect
    \/ ComplexWikipedia
    \/ ComplexTavily
    \/ Fallback
    \/ Finish

Spec == Init /\ [][Next]_vars

(***************************************************************************)
(* The same query asked twice.  The caller keeps the outcome of a call     *)
(* made without force_layer and calls retrieve_facts again with the same   *)
(* query; the backends answer the second call as they please.              *)
(***************************************************************************)
Returns(log) == [i \in DOMAIN log |-> [layer |-> log[i].layer, data |-> log[i].data]]

FirstInvoke ==
    /\ previous = None
    /\ Invoke

Remember ==
    /\ pc = "done"
    /\ ~(force_layer # NoLayer)
    /\ previous = None
    /\ previous' = [kind |-> "call", query |-> query, returned |-> Returns(queried),
                    result |-> result]
    /\ pc' = "idle"
    /\ query' = <<>>
    /\ context' = EmptyDict
    /\ force_layer' = NoLayer
    /\ complexity' = "none"
    /\ wiki_data' = None
    /\ tavily_data' = None
    /\ queried' = <<>>
    /\ result' = None
    /\ UNCHANGED <<threads, frames, others>>

Repeat ==
    /\ pc = "idle"
    /\ previous # None
    /\ \E c \in Contexts :
          /\ query' = previous.query
          /\ context' = (IF Truthy(c) THEN c ELSE EmptyDict)
          /\ force_layer' = NoLayer
          /\ complexity' = determine_complexity(previous.query, context')
          /\ pc' = complexity'
    /\ wiki_data' = None
    /\ tavily_data' = None
    /\ queried' = <<>>
    /\ result' = None
    /\ UNCHANGED <<previous, threads, frames, others>>

NextRepeat ==
    \/ FirstInvoke
    \/ Remember
    \/ Repeat
    \/ Force
    \/ SimpleWikipedia
    \/ SimpleTavily
    \/ ModerateWikipedia
    \/ ModerateVerify
    \/ ModerateDirect
    \/ ComplexWikipedia
    \/ ComplexTavily
    \/ Fallback
    \/ Finish

SpecRepeat == Init /\ [][NextRepeat]_vars

(***************************************************************************)
(* Concurrent invocations.  Each thread runs retrieve_facts by the same    *)
(* steps as above, on the locals of its frame; a step is one backend call  *)
(* and the code up to the next one, and the steps of the threads           *)
(* interleave freely.  The backends answer from a few responses.           *)
(***************************************************************************)
ConcurrentWikipediaResponses ==
    {r \in WikipediaResponses :
        /\ r.search \in {"ok", "timeout"}
        /\ r.content = "ok"
        /\ (r.hits = 1 => r.extract \in {40, 250})}
ConcurrentTavilyResponses ==
    {r \in TavilyResponses : r.search \in {"ok", "timeout"} /\ r.count = 0}
ConcurrentResponses(layer) ==
    CASE layer = WIKIPEDIA -> ConcurrentWikipediaResponses
      [] layer = BRAVE -> BraveResponses
      [] layer = TAVILY -> ConcurrentTavilyResponses

\* The threads ask the one-phrase queries; an invocation reads of its query
\* the complexity only, which is what the thread keeps of it.
ThreadQueries == QueriesOfLen(1)

InFlight(th) == th.pc \notin {"idle", "done", "raised"}

\* Thread t takes a step that leaves it as th and its frame as fr.
Step(t, th, fr) ==
    /\ threads' = [threads EXCEPT ![t] = th]
    /\ frames' = [frames EXCEPT ![Frame(t)] = fr]
    /\ UNCHANGED <<single, others>>

Goto(th, label) == [th EXCEPT !.pc = label]
Returning(th, r) == [th EXCEPT !.pc = "done", !.result = r]

\* Lines 297-303.
ThreadInvoke(t) ==
    /\ threads[t].pc = "idle"
    /\ \E q \in ThreadQueries, f \in ForceLayers :
          LET cx == determine_complexity(q, EmptyDict) IN
          Step(t,
               [IdleThread EXCEPT !.pc = IF f # NoLayer THEN "force" ELSE cx,
                                  !.force_layer = f,
                                  !.complexity = cx],
               frames[Frame(t)])

\* Lines 303-318.
ThreadForce(t) ==
    /\ threads[t].pc = "force"
    /\ \E resp \in ConcurrentResponses(ForceBackend(threads[t].force_layer)) :
          LET f == threads[t].force_layer
              out == Retrieve(ForceBackend(f), resp)
              th == [threads[t] EXCEPT !.returned[ForceBackend(f)] = out.data]
              fr == [frames[Frame(t)] EXCEPT !.data = out.data]
          IN  IF out.raised THEN Step(t, Goto(th, "raised"), fr)
              ELSE Step(t, Returning(th, ForceResult(f, fr.data)), fr)

\* Lines 321-336.
ThreadSimpleWikipedia(t) ==
    /\ threads[t].pc = "simple"
    /\ \E resp \in ConcurrentWikipediaResponses :
          LET out == retrieve_from_wikipedia(resp)
              th == [threads[t] EXCEPT !.returned.wikipedia = out.data]
              fr == [frames[Frame(t)] EXCEPT !.wiki_data = out.data]
          IN  IF out.raised THEN Step(t, Goto(th, "raised"), fr)
              ELSE IF SimpleSufficient(fr.wiki_data)
                   THEN Step(t, Returning(th, SimpleWikipediaResult(fr.wiki_data)), fr)
                   ELSE Step(t, Goto(th, "simple_tavily"), fr)

\* Lines 337-346.
ThreadSimpleTavily(t) ==
    /\ threads[t].pc = "simple_tavily"
    /\ \E resp \in ConcurrentTavilyResponses :
          LET out == retrieve_from_tavily(resp)
              th == [threads[t] EXCEPT !.returned.tavily = out.data]
              fr == [frames[Frame(t)] EXCEPT !.tavily_data = out.data]
          IN  IF out.raised THEN Step(t, Goto(th, "raised"), fr)
              ELSE IF Truthy(fr.tavily_data)
                   THEN Step(t, Returning(th, SimpleTavilyResult(fr.wiki_data,
                                                                 fr.tavily_data)), fr)
                   ELSE Step(t, Goto(th, "fallback"), fr)

\* Lines 349-353 and 381-383.
ThreadModerateWikipedia(t) ==
    /\ threads[t].pc = "moderate"
    /\ \E resp \in ConcurrentWikipediaResponses :
          LET out == retrieve_from_wikipedia(resp)
              th == [threads[t] EXCEPT !.returned.wikipedia = out.data]
              fr == [frames[Frame(t)] EXCEPT !.wiki_data = out.data]
          IN  IF out.raised THEN Step(t, Goto(th, "raised"), fr)
              ELSE Step(t, Goto(th, IF Truthy(fr.wiki_data) THEN "moderate_verify"
                                                             ELSE "moderate_direct"), fr)

\* Lines 356-380 (PRIMARY gave data) and 384-392 (it did not).
ThreadModerateTavily(t) ==
    /\ threads[t].pc \in {"moderate_verify", "moderate_direct"}
    /\ \E resp \in ConcurrentTavilyResponses :
          LET out == retrieve_from_tavily(resp)
              th == [threads[t] EXCEPT !.returned.tavily = out.data]
              fr == [frames[Frame(t)] EXCEPT !.tavily_data = out.data]
          IN  IF out.raised THEN Step(t, Goto(th, "raised"), fr)
              ELSE IF threads[t].pc = "moderate_verify" \/ Truthy(fr.tavily_data)
                   THEN Step(t, Returning(th, ModerateResult(fr.wiki_data,
                                                             fr.tavily_data)), fr)
                   ELSE Step(t, Goto(th, "fallback"), fr)

\* Lines 395-397.
ThreadComplexWikipedia(t) ==
    /\ threads[t].pc = "complex"
    /\ \E resp \in ConcurrentWikipediaResponses :
          LET out == retrieve_from_wikipedia(resp)
              th == [threads[t] EXCEPT !.returned.wikipedia = out.data]
              fr == [frames[Frame(t)] EXCEPT !.wiki_data = out.data]
          IN  IF out.raised THEN Step(t, Goto(th, "raised"), fr)
              ELSE Step(t, Goto(th, "complex_tavily"), fr)

\* Lines 398-422.
ThreadComplexTavily(t) ==
    /\ threads[t].pc = "complex_tavily"
    /\ \E resp \in ConcurrentTavilyResponses :
          LET out == retrieve_from_tavily(resp)
              th == [threads[t] EXCEPT !.returned.tavily = out.data]
              fr == [frames[Frame(t)] EXCEPT !.tavily_data = out.data]
          IN  IF out.raised THEN Step(t, Goto(th, "raised"), fr)
              ELSE IF ComplexResult(fr.wiki_data, fr.tavily_data) # None
                   THEN Step(t, Returning(th, ComplexResult(fr.wiki_data,
                                                            fr.tavily_data)), fr)
                   ELSE Step(t, Goto(th, "fallback"), fr)

\* Lines 424-432.
ThreadFallback(t) ==
    /\ threads[t].pc = "fallback"
    /\ Step(t, Returning(threads[t], FallbackResult), frames[Frame(t)])

\* The thread's caller has read the result; the frame is gone.
ThreadFinish(t) ==
    /\ threads[t].pc \in {"done", "raised"}
    /\ Step(t, IdleThread, NewFrame)

NextConcurrent ==
    \E t \in Threads :
        \/ ThreadInvoke(t)
        \/ ThreadForce(t)
        \/ ThreadSimpleWikipedia(t)
        \/ ThreadSimpleTavily(t)
        \/ ThreadModerateWikipedia(t)
        \/ ThreadModerateTavily(t)
        \/ ThreadComplexWikipedia(t)
        \/ ThreadComplexTavily(t)
        \/ ThreadFallback(t)
        \/ ThreadFinish(t)

SpecConcurrent == Init /\ [][NextConcurrent]_vars

\* The result of an invocation that runs alone with arguments force_layer f
\* and a query of complexity cx, to which the sources return what `returned`
\* says.
AloneResult(f, cx, returned) ==
    IF f # NoLayer THEN ForceResult(f, returned[f])
    ELSE IF cx = "simple"
         THEN IF SimpleSufficient(returned.wikipedia)
              THEN SimpleWikipediaResult(returned.wikipedia)
              ELSE IF Truthy(returned.tavily)
                   THEN SimpleTavilyResult(returned.wikipedia, returned.tavily)
                   ELSE FallbackResult
    ELSE IF cx = "moderate"
         THEN IF ModerateResult(returned.wikipedia, returned.tavily) # None
              THEN ModerateResult(returned.wikipedia, returned.tavily)
              ELSE FallbackResult
    ELSE IF ComplexResult(returned.wikipedia, returned.tavily) # None
         THEN ComplexResult(returned.wikipedia, returned.tavily)
         ELSE FallbackResult

\* What the sources returned in the invocation of the first part of the
\* module, by layer.
ReturnedByLayer ==
    [l \in RetrievalLayer |->
        IF \E i \in DOMAIN queried : queried[i].layer = l
        THEN (CHOOSE c \in {queried[i] : i \in DOMAIN queried} : c.layer = l).data
        ELSE None]

\* AloneResult is the result of the single invocation.
AloneResultIsSingleResult ==
    pc = "done" => result = AloneResult(force_layer, complexity, ReturnedByLayer)

(***************************************************************************)
(* format_for_llm (lines 440-474).  The returned str is modelled as the    *)
(* sequence of the pieces the function appends to it, so the empty str is  *)
(* the empty sequence.  A piece keeps the value it renders: the upper-cased*)
(* label, the summary (its length, as in the payload) or the dict that     *)
(* json.dumps serialises.                                                  *)
(***************************************************************************)
\* str.upper() on the layer values and confidence labels the results carry.
Upper(s) ==
    CASE s = "wikipedia" -> "WIKIPEDIA"
      [] s = "brave" -> "BRAVE"
      [] s = "tavily" -> "TAVILY"
      [] s = "high" -> "HIGH"
      [] s = "medium" -> "MEDIUM"
      [] s = "low" -> "LOW"
      [] s = "none" -> "NONE"

\* Lines 448-449.
Header(r) ==
    <<[kind |-> "VERIFIED FACTS (Source: ...):", source |-> Upper(r.layer_used)],
      [kind |-> "Confidence: ...", label |-> Upper(r.confidence)]>>

\* dict.get('summary', '') on a payload: '' has length 0.
GetSummary(d) == IF "summary" \in d.keys THEN d.summary ELSE 0

\* Lines 455-458.
PrimarySection_Unguarded(data) ==
    <<[kind |-> "Primary Source (Wikipedia):",
       summary |-> IF Truthy(data.primary) THEN GetSummary(data.primary) ELSE 0]>>
PrimarySection(data) ==
    IF Truthy(data.primary)
    THEN <<[kind |-> "Primary Source (Wikipedia):",
            summary |-> GetSummary(data.primary)]>>
    ELSE <<>>

\* Lines 459-462.
SynthesisSection(data) ==
    IF Truthy(data.synthesis)
    THEN <<[kind |-> "Synthesis (Tavily):", json |-> data.synthesis]>>
    ELSE <<>>

\* Lines 451-469: the dispatch on the keys of the payload.
Body(data) ==
    IF "primary" \in data.keys /\ "combined" \in data.keys
    THEN PrimarySection(data) \o SynthesisSection(data)
    ELSE IF "summary" \in data.keys
    THEN <<[kind |-> "summary", summary |-> GetSummary(data)],
           [kind |-> "Source URL: ..."]>>
    ELSE IF "results" \in data.keys
    THEN <<[kind |-> "results", json |-> data]>>
    ELSE <<>>

\* Lines 471-472.
Warning_BelowHigh(r) ==
    IF r.needs_verification \/ r.confidence # "high"
    THEN <<[kind |-> "WARNING: This data needs additional verification."]>>
    ELSE <<>>
Warning(r) ==
    IF r.needs_verification
    THEN <<[kind |-> "WARNING: This data needs additional verification."]>>
    ELSE <<>>

format_for_llm_FailureNotice(r) ==
    IF ~r.success
    THEN <<[kind |-> "Confidence: ...", label |-> Upper(r.confidence)]>>
    ELSE Header(r) \o Body(r.data) \o Warning(r)
format_for_llm(r) ==
    IF ~r.success
    THEN <<>>
    ELSE Header(r) \o Body(r.data) \o Warning(r)

\* The results a caller can build with the constructor of lines 36-51 from
\* the payloads the sources give.  As at every construction in the module,
\* a result with success = True carries a dict.
WikipediaPayloads ==
    {retrieve_from_wikipedia(resp).data : resp \in WikipediaResponses} \ {None}
TavilyPayloads ==
    {retrieve_from_tavily(resp).data : resp \in TavilyResponses} \ {None}
Payloads ==
    {EmptyDict} \cup WikipediaPayloads \cup TavilyPayloads
        \cup {Combined(p, y) : p \in WikipediaPayloads \cup {EmptyDict},
                               y \in TavilyPayloads \cup {EmptyDict}}
ConfidenceLabels == {"high", "medium", "low", "none"}
ConstructedResults ==
    {FactRetrievalResult(ok, d, l, c, nv) :
        ok \in BOOLEAN, d \in Payloads \cup {None}, l \in RetrievalLayer,
        c \in ConfidenceLabels, nv \in BOOLEAN}
FormatInputs == {r \in ConstructedResults : r.success => r.data # None}

Formatting(r) == [input |-> r, text |-> format_for_llm(r)]

\* Line 503: the caller formats the result retrieve_facts returned.
FormatResult ==
    /\ pc = "done"
    /\ formatted' = Formatting(result)
    /\ pc' = "formatted"
    /\ UNCHANGED <<args, wiki_data, tavily_data, queried, result, previous,
                   threads, frames, workflow, narration>>

\* A caller formats a result it holds.
FormatConstructed ==
    /\ pc = "idle"
    /\ \E r \in FormatInputs : formatted' = Formatting(r)
    /\ pc' = "formatted"
    /\ UNCHANGED <<args, wiki_data, tavily_data, queried, result, previous,
                   threads, frames, workflow, narration>>

\* The caller has used the text.
FormatReturn ==
    /\ pc = "formatted"
    /\ formatted' = None
    /\ pc' = "idle"
    /\ query' = <<>>
    /\ context' = EmptyDict
    /\ force_layer' = NoLayer
    /\ complexity' = "none"
    /\ wiki_data' = None
    /\ tavily_data' = None
    /\ queried' = <<>>
    /\ result' = None
    /\ UNCHANGED <<previous, threads, frames, workflow, narration>>

NextFormat ==
    \/ Invoke
    \/ Force
    \/ SimpleWikipedia
    \/ SimpleTavily
    \/ ModerateWikipedia
    \/ ModerateVerify
    \/ ModerateDirect
    \/ ComplexWikipedia
    \/ ComplexTavily
    \/ Fallback
    \/ Finish
    \/ FormatResult
    \/ FormatConstructed
    \/ FormatReturn

SpecFormat == Init /\ [][NextFormat]_vars

(***************************************************************************)
(* The workflow graph of langgraphflow.py and a run of compiled_graph.     *)
(* StateGraph runs in steps: the nodes due run, each hands the state on,   *)
(* and the targets of their edges are due next; the run ends when only END *)
(* is due and fails when the step count passes recursion_limit or a node   *)
(* raises.                                                                 *)
(***************************************************************************)
END == "__end__"

\* Lines 42-66.
Nodes ==
    {"topic_node", "sub_topic_node", "slide_planner", "blueprint_mapper",
     "narration_node", "content_generation_node", "intro_narration_node"}

\* Line 72.
entry_point == "topic_node"

\* Lines 73-82.  The variant keeps a way back from content generation to
\* slide planning.
Edges_BackToPlanner ==
    {<<"topic_node", "sub_topic_node">>,
     <<"sub_topic_node", "slide_planner">>,
     <<"slide_planner", "blueprint_mapper">>,
     <<"blueprint_mapper", "narration_node">>,
     <<"narration_node", "content_generation_node">>,
     <<"content_generation_node", "slide_planner">>,
     <<"content_generation_node", "intro_narration_node">>,
     <<"intro_narration_node", END>>}
Edges ==
    {<<"topic_node", "sub_topic_node">>,
     <<"sub_topic_node", "slide_planner">>,
     <<"slide_planner", "blueprint_mapper">>,
     <<"blueprint_mapper", "narration_node">>,
     <<"narration_node", "content_generation_node">>,
     <<"content_generation_node", "intro_narration_node">>,
     <<"intro_narration_node", END>>}

Successors(n) == {e[2] : e \in {d \in Edges : d[1] = n}}

\* The default of the run configuration compiled_graph.invoke is given.
recursion_limit == 25

\* The keys of TutorState each node function sets before it returns state.
NodeWrites(n) ==
    CASE n = "topic_node" -> {"topic", "granularity"}
      [] n = "sub_topic_node" -> {"sub_topics"}
      [] n = "slide_planner" -> {"slide_plan"}
      [] n = "blueprint_mapper" -> {"slide_plan"}
      [] n = "narration_node" -> {"slides"}
      [] n = "content_generation_node" -> {"slides"}
      [] n = "intro_narration_node" ->
            {"lesson_intro_narration", "subtopic_intro_narrations"}
      [] OTHER -> {}
\* (topic_node.py 68-69, sub_topic_node.py 42, new_slide_planner.py 370-385,
\* blueprint_mapper.py 600, narration_node.py 446,
\* content_generation_node.py 389, intro_narration_node.py 112-137.)

\* The initial states the callers pass to compiled_graph.invoke: the keys of
\* the test drivers, with or without the optional ones and the preferences
\* generate_all_narrations reads.
InitialStates ==
    {{"user_input", "topic", "sub_topics", "slides"} \cup extra :
        extra \in SUBSET {"granularity", "intro_text", "messages",
                          "difficulty", "narration_style"}}

\* The nodes of one step, in the order they are recorded.
RECURSIVE Order(_)
Order(S) ==
    IF S = {} THEN <<>>
    ELSE LET n == CHOOSE x \in S : TRUE IN <<n>> \o Order(S \ {n})

\* compiled_graph.invoke(initial_state).
GraphInvoke ==
    /\ run_pc = "idle"
    /\ \E st \in InitialStates : tutor_state' = st
    /\ active' = {entry_point}
    /\ ran' = <<>>
    /\ run_pc' = "running"
    /\ UNCHANGED <<single, threads, frames, formatting, narration>>

\* Every node due returns the state.
NodeReturns ==
    /\ run_pc = "running"
    /\ ran' = ran \o Order(active)
    /\ tutor_state' = tutor_state \cup UNION {NodeWrites(n) : n \in active}
    /\ LET due == UNION {Successors(n) : n \in active} \ {END} IN
          /\ active' = due
          /\ run_pc' = IF due = {} THEN "ended"
                       ELSE IF Len(ran') >= recursion_limit THEN "recursion_limit"
                       ELSE "running"
    /\ UNCHANGED <<single, threads, frames, formatting, narration>>

\* A node due raises, and the exception leaves compiled_graph.invoke.
NodeRaises ==
    /\ run_pc = "running"
    /\ \E n \in active : ran' = Append(ran, n)
    /\ active' = {}
    /\ run_pc' = "raised"
    /\ UNCHANGED <<single, threads, frames, formatting, narration, tutor_state>>

\* The caller has the final state or the exception.
GraphReturn ==
    /\ run_pc \in {"ended", "raised", "recursion_limit"}
    /\ run_pc' = "idle"
    /\ active' = {}
    /\ ran' = <<>>
    /\ tutor_state' = {}
    /\ UNCHANGED <<single, threads, frames, formatting, narration>>

NextWorkflow ==
    \/ GraphInvoke
    \/ NodeReturns
    \/ NodeRaises
    \/ GraphReturn

\* The call chain is synchronous: the node that is running returns or
\* raises, and the run goes on.
SpecWorkflow ==
    Init /\ [][NextWorkflow]_vars /\ WF_vars(NodeReturns \/ NodeRaises)

(***************************************************************************)
(* generate_narrations_batch (narration_node.py 208-415).  A narration     *)
(* text is kept as where it comes from: the batch response (with the index *)
(* of its entry and its number of words), an individual generation, the    *)
(* template sentence of line 204, '' or no narration_text key at all.      *)
(***************************************************************************)
MinWords == 80

SlideIds == {"s1", "s2"}
SlideLists == UNION {[1..n -> SlideIds] : n \in 0..MaxSlides}

BatchText(k, w) == [by |-> "batch", index |-> k, words |-> w]
IndividualText == [by |-> "individual"]
TemplateText == [by |-> "template"]
EmptyText == [by |-> "empty"]
NoText == [by |-> "absent"]

\* An entry of the "narrations" list: a dict whose narration_text has the
\* given number of words (0 also when the key is missing, line 360), or a
\* value lines 360-361 cannot read (not a dict, or a text that is not a str).
WordCounts == {0, MinWords - 1, MinWords}
NarrationEntries ==
    {[kind |-> "dict", words |-> w] : w \in WordCounts} \cup {[kind |-> "other"]}
NarrationLists == UNION {[1..n -> NarrationEntries] : n \in 0..(MaxSlides + 1)}

\* What the batch call of lines 339-347 and the parse of lines 351-353 meet:
\* the call raises; the content is not JSON; the JSON value is not an
\* object; "narrations" has no len(); or "narrations" is a list (the empty
\* one also when the key is missing).
BatchResponses ==
    {[kind |-> "llm_error"], [kind |-> "unparsable"], [kind |-> "not_object"],
     [kind |-> "unsized"]}
        \cup {[kind |-> "object", narrations |-> l] : l \in NarrationLists}

\* What the two model calls of generate_narration_for_slide give (lines 89
\* and 191): search is the decision of should_use_search ("malformed" is a
\* JSON value decision.get or query.strip cannot read), answer the content
\* of the narration call.
IndividualResponses ==
    {r \in [search : {"ok", "llm_error", "malformed"},
            answer : {"object", "object_no_text", "not_object", "unparsable",
                      "llm_error"}] :
        r.search # "ok" => r.answer = "object"}

\* Lines 82-205: the dict or other JSON value the function returns, or the
\* exception that leaves it.
generate_narration_for_slide(resp) ==
    IF resp.search = "llm_error" \/ resp.answer = "llm_error"
    THEN [raised |-> TRUE, llm |-> TRUE, value |-> None]
    ELSE IF resp.search = "malformed"
    THEN [raised |-> TRUE, llm |-> FALSE, value |-> None]
    ELSE IF resp.answer = "unparsable"
    THEN [raised |-> FALSE, llm |-> FALSE,
          value |-> [kind |-> "dict", keys |-> {"slide_title", "narration_text"},
                     narration_text |-> TemplateText, slide_title |-> "input"]]
    ELSE IF resp.answer = "object"
    THEN [raised |-> FALSE, llm |-> FALSE,
          value |-> [kind |-> "dict", keys |-> {"slide_title", "narration_text"},
                     narration_text |-> IndividualText, slide_title |-> "llm"]]
    ELSE IF resp.answer = "object_no_text"
    THEN [raised |-> FALSE, llm |-> FALSE,
          value |-> [kind |-> "dict", keys |-> {"slide_title"},
                     slide_title |-> "llm"]]
    ELSE [raised |-> FALSE, llm |-> FALSE, value |-> [kind |-> "list"]]

\* individual_result.get("narration_text", "").
GetNarrationText(d) ==
    IF "narration_text" \in d.keys THEN d.narration_text ELSE EmptyText

\* Lines 371-374, 377-380, 389-392 and 395: {**slide, **narration_data}.
KeptEntry(slide, text) ==
    [slide |-> slide, narration_text |-> text, regenerated |-> "False",
     slide_title |-> "input"]
RegeneratedEntry(slide, d) ==
    [slide |-> slide, narration_text |-> GetNarrationText(d),
     regenerated |-> "True", slide_title |-> "input"]

\* Line 414: {**slide, **individual_result}.
FallbackEntry(slide, d) ==
    [slide |-> slide,
     narration_text |-> IF "narration_text" \in d.keys THEN d.narration_text
                        ELSE NoText,
     regenerated |-> "absent",
     slide_title |-> d.slide_title]

\* Line 364.
TooShort(words) == words < MinWords

\* The call, with the batch request of lines 339-347, which is outside the
\* try statement.
NarrationInvoke ==
    /\ nar_pc = "idle"
    /\ \E sl \in SlideLists : slides' = sl
    /\ \E b \in BatchResponses :
          /\ batch' = b
          /\ llm_raised' = (b.kind = "llm_error")
          /\ nar_pc' = IF b.kind = "llm_error" THEN "raised" ELSE "parse"
    /\ results' = <<>>
    /\ regeneration_count' = 0
    /\ UNCHANGED <<single, threads, frames, formatting, workflow>>

\* Lines 404-409: the except clause abandons the pass.
Abandon ==
    /\ nar_pc' = "fallback"
    /\ results' = <<>>
    /\ regeneration_count' = 0

\* Lines 350-356.
ParseBatch ==
    /\ nar_pc = "parse"
    /\ IF batch.kind \in {"unparsable", "not_object"}
       THEN Abandon
       ELSE /\ nar_pc' = "loop"
            /\ UNCHANGED <<results, regeneration_count>>
    /\ UNCHANGED <<single, threads, frames, formatting, workflow, slides, batch,
                   llm_raised>>

\* Lines 368-375 and 386-393 for the slide at position k.
Regenerate(k) ==
    \E resp \in IndividualResponses :
        LET out == generate_narration_for_slide(resp) IN
        /\ llm_raised' = (llm_raised \/ out.llm)
        /\ IF out.raised \/ out.value.kind # "dict"
           THEN Abandon
           ELSE /\ results' = Append(results, RegeneratedEntry(slides[k], out.value))
                /\ regeneration_count' = regeneration_count + 1
                /\ nar_pc' = "loop"

\* Lines 358-395: one turn of the loop of the batch pass.
BatchLoop ==
    /\ nar_pc = "loop"
    /\ Len(results) < Len(slides)
    /\ LET k == Len(results) + 1 IN
       IF batch.kind = "unsized"
       THEN Abandon /\ UNCHANGED llm_raised
       ELSE IF k <= Len(batch.narrations)
       THEN IF batch.narrations[k].kind # "dict"
            THEN Abandon /\ UNCHANGED llm_raised
            ELSE IF TooShort(batch.narrations[k].words)
            THEN Regenerate(k)
            ELSE /\ results' = Append(results,
                        KeptEntry(slides[k], BatchText(k, batch.narrations[k].words)))
                 /\ UNCHANGED <<nar_pc, regeneration_count, llm_raised>>
       ELSE Regenerate(k)
    /\ UNCHANGED <<single, threads, frames, formatting, workflow, slides, batch>>

\* Lines 397-402.
BatchReturn ==
    /\ nar_pc = "loop"
    /\ Len(results) = Len(slides)
    /\ nar_pc' = "returned"
    /\ UNCHANGED <<single, threads, frames, formatting, workflow, slides, batch,
                   results, regeneration_count, llm_raised>>

\* Lines 410-414: one turn of the loop of the except clause; an exception
\* here leaves generate_narrations_batch.
FallbackLoop ==
    /\ nar_pc = "fallback"
    /\ Len(results) < Len(slides)
    /\ \E resp \in IndividualResponses :
          LET out == generate_narration_for_slide(resp) IN
          /\ llm_raised' = (llm_raised \/ out.llm)
          /\ IF out.raised \/ out.value.kind # "dict"
             THEN /\ nar_pc' = "raised"
                  /\ UNCHANGED results
             ELSE /\ results' = Append(results,
                         FallbackEntry(slides[Len(results) + 1], out.value))
                  /\ UNCHANGED nar_pc
    /\ UNCHANGED <<single, threads, frames, formatting, workflow, slides, batch,
                   regeneration_count>>

\* Line 415.
FallbackReturn ==
    /\ nar_pc = "fallback"
    /\ Len(results) = Len(slides)
    /\ nar_pc' = "returned"
    /\ UNCHANGED <<single, threads, frames, formatting, workflow, slides, batch,
                   results, regeneration_count, llm_raised>>

\* generate_all_narrations has the list (line 446) or the exception.
NarrationFinish ==
    /\ nar_pc \in {"returned", "raised"}
    /\ nar_pc' = "idle"
    /\ slides' = <<>>
    /\ batch' = None
    /\ results' = <<>>
    /\ regeneration_count' = 0
    /\ llm_raised' = FALSE
    /\ UNCHANGED <<single, threads, frames, formatting, workflow>>

NextNarration ==
    \/ NarrationInvoke
    \/ ParseBatch
    \/ BatchLoop
    \/ BatchReturn
    \/ FallbackLoop
    \/ FallbackReturn
    \/ NarrationFinish

SpecNarration == Init /\ [][NextNarration]_vars

TypeOK ==
    /\ pc \in {"idle", "force", "simple", "simple_tavily", "moderate",
               "moderate_verify", "moderate_direct", "complex", "complex_tavily",
               "fallback", "done", "raised"}
    /\ force_layer \in ForceLayers
    /\ complexity \in {"none", "simple", "moderate", "complex"}
    /\ Len(queried) <= 2
    /\ pc = "done" <=> result # None

(***************************************************************************)
(* Vocabulary of the properties.                                           *)
(***************************************************************************)
Done == pc = "done"
Forced == force_layer # NoLayer
Adaptive == pc # "idle" /\ ~Forced
LayersQueried == {queried[i].layer : i \in DOMAIN queried}
GaveData(i) == Truthy(queried[i].data)
AllQueriedGaveNothing == \A i \in DOMAIN queried : ~GaveData(i)
\* Data the strategy accepts: in the simple strategy a PRIMARY summary of
\* SufficientLen characters or fewer is not.
Usable(i) ==
    /\ GaveData(i)
    /\ (complexity = "simple" /\ queried[i].layer = WIKIPEDIA
           => queried[i].data.summary > SufficientLen)
PrimaryInsufficient ==
    /\ Len(queried) >= 1
    /\ queried[1].layer = WIKIPEDIA
    /\ (GaveData(1) => queried[1].data.summary <= SufficientLen)

(***************************************************************************)
(* C1.  A call with force_layer = X queries X exactly once and queries no  *)
(* other source, whatever X, the complexity and the outcome are.           *)
(***************************************************************************)
C1_ForceQueriesOnlyForced ==
    Forced =>
        /\ LayersQueried \subseteq {force_layer}
        /\ Len(queried) <= 1
        /\ (pc \in {"done", "raised"} => Len(queried) = 1)

C1_Witness ==
    /\ Done
    /\ force_layer = BRAVE
    /\ complexity = "complex"
    /\ queried = <<Call(BRAVE, None, "none")>>

(***************************************************************************)
(* C2 as stated.  Every returned result with success = false, on the force *)
(* path as on the adaptive paths, has an empty payload and confidence      *)
(* none.                                                                   *)
(***************************************************************************)
C2_FailureIsEmptyAndNone ==
    Done /\ ~result.success =>
        /\ result.data = EmptyDict
        /\ result.confidence = "none"

(***************************************************************************)
(* C2 as amended.  Every returned result with success = false has an empty *)
(* payload; its confidence is none on the adaptive paths and low on the    *)
(* force path.                                                             *)
(***************************************************************************)
C2_FailureIsEmptyNoneOrLow ==
    Done /\ ~result.success =>
        /\ result.data = EmptyDict
        /\ result.confidence = (IF Forced THEN "low" ELSE "none")

C2_Witness ==
    /\ Done
    /\ Forced
    /\ ~result.success
    /\ result.data = EmptyDict
    /\ result.confidence = "low"

(***************************************************************************)
(* C3.  In each of the three strategies a result with success = false has  *)
(* confidence none and needs_verification true.                            *)
(***************************************************************************)
C3_AdaptiveFailureFlags ==
    Done /\ ~Forced /\ ~result.success =>
        /\ complexity \in {"simple", "moderate", "complex"}
        /\ result.confidence = "none"
        /\ result.needs_verification = TRUE

C3_Witness ==
    /\ Done
    /\ ~Forced
    /\ complexity = "moderate"
    /\ ~result.success
    /\ result.confidence = "none"
    /\ result.needs_verification

(***************************************************************************)
(* C4.  A forced call reports the forced source alone: layer_used is the   *)
(* forced source, and the confidence is high with the source's payload     *)
(* when it returned data and low with success = false when it did not.     *)
(***************************************************************************)
C4_ForceReportsForcedSource ==
    Done /\ Forced =>
        /\ result.layer_used = force_layer
        /\ (GaveData(1) =>
               /\ result.success
               /\ result.data = queried[1].data
               /\ result.confidence = "high")
        /\ (~GaveData(1) =>
               /\ ~result.success
               /\ result.confidence = "low")

C4_Witness ==
    /\ Done
    /\ force_layer = WIKIPEDIA
    /\ queried[1].exc = "Timeout"
    /\ ~result.success
    /\ result.confidence = "low"

(***************************************************************************)
(* C5.  The layer_used of every returned result is a source that was       *)
(* queried during the call.                                                *)
(***************************************************************************)
C5_LayerUsedWasQueried ==
    Done => result.layer_used \in LayersQueried

C5_Witness ==
    /\ Done
    /\ ~Forced
    /\ ~result.success
    /\ result.layer_used = WIKIPEDIA
    /\ LayersQueried = {WIKIPEDIA, TAVILY}

(***************************************************************************)
(* C6 as stated.  Without force_layer the result has success = false only  *)
(* when every source queried returned no data, and success = true whenever *)
(* some queried source returned data.                                      *)
(***************************************************************************)
C6_SuccessIffSomeData ==
    Done /\ ~Forced => (result.success <=> \E i \in DOMAIN queried : GaveData(i))

(***************************************************************************)
(* C6 as amended.  Without force_layer the result has success = true       *)
(* exactly when some queried source returned usable data, where a PRIMARY  *)
(* summary of 100 characters or fewer in the simple strategy is not        *)
(* usable.                                                                 *)
(***************************************************************************)
C6_SuccessIffSomeUsableData ==
    Done /\ ~Forced => (result.success <=> \E i \in DOMAIN queried : Usable(i))

C6_Witness ==
    /\ Done
    /\ ~Forced
    /\ complexity = "simple"
    /\ GaveData(1)
    /\ queried[1].data.summary = SufficientLen
    /\ ~GaveData(2)
    /\ ~result.success

(***************************************************************************)
(* C7.  No backend failure leaves retrieve_facts as an exception: a        *)
(* backend whose body raised returned None, the strategy went on to its    *)
(* next step, and the call returns a FactRetrievalResult.                  *)
(***************************************************************************)
C7_BackendFailuresAreNoData ==
    /\ pc # "raised"
    /\ \A i \in DOMAIN queried : queried[i].exc # "none" => queried[i].data = None
    /\ (Done => result.kind = "FactRetrievalResult")
    /\ (Adaptive /\ Len(queried) >= 1 /\ queried[1].exc # "none" =>
           \/ pc \in {"simple_tavily", "moderate_direct", "complex_tavily"}
           \/ /\ Len(queried) = 2
              /\ queried[2].layer = TAVILY)

C7_Witness ==
    /\ Done
    /\ ~Forced
    /\ Len(queried) = 2
    /\ queried[1].exc = "AttributeError"
    /\ queried[2].exc = "RuntimeError"
    /\ result.kind = "FactRetrievalResult"

(***************************************************************************)
(* C8.  Without force_layer, when every source queried returned no data    *)
(* the result is exactly success = false, empty payload, layer_used =      *)
(* PRIMARY, confidence none, needs_verification true.                      *)
(***************************************************************************)
C8_AllFailedGivesGlobalFailure ==
    Done /\ ~Forced /\ AllQueriedGaveNothing =>
        result = [kind |-> "FactRetrievalResult",
                  success |-> FALSE,
                  data |-> EmptyDict,
                  layer_used |-> WIKIPEDIA,
                  confidence |-> "none",
                  needs_verification |-> TRUE]

C8_Witness ==
    /\ Done
    /\ ~Forced
    /\ complexity = "complex"
    /\ Len(queried) = 2
    /\ AllQueriedGaveNothing
    /\ ~result.success

(***************************************************************************)
(* C9.  Simple query, no force_layer: when PRIMARY returns a summary       *)
(* longer than 100 characters the result is success with PRIMARY's         *)
(* payload, layer_used = PRIMARY, confidence high, needs_verification      *)
(* false.                                                                  *)
(***************************************************************************)
C9_SimpleSufficientPrimary ==
    Done /\ ~Forced /\ complexity = "simple"
         /\ GaveData(1) /\ queried[1].data.summary > 100 =>
        result = [kind |-> "FactRetrievalResult",
                  success |-> TRUE,
                  data |-> queried[1].data,
                  layer_used |-> WIKIPEDIA,
                  confidence |-> "high",
                  needs_verification |-> FALSE]

C9_Witness ==
    /\ Done
    /\ ~Forced
    /\ complexity = "simple"
    /\ queried[1].layer = WIKIPEDIA
    /\ GaveData(1)
    /\ queried[1].data.summary = 250
    /\ result.success
    /\ result.layer_used = WIKIPEDIA

(***************************************************************************)
(* C10.  Simple query, no force_layer: when PRIMARY returns no data or a   *)
(* summary of 100 characters or fewer, DEEP is queried next, and when DEEP *)
(* returns data the result is success with DEEP's payload alone,           *)
(* layer_used = DEEP, confidence high, needs_verification false.           *)
(***************************************************************************)
C10_SimpleEscalatesToDeep ==
    Adaptive /\ complexity = "simple" /\ PrimaryInsufficient =>
        /\ pc = "simple_tavily" \/ (Len(queried) = 2 /\ queried[2].layer = TAVILY)
        /\ (Done /\ GaveData(2) =>
               result = [kind |-> "FactRetrievalResult",
                         success |-> TRUE,
                         data |-> queried[2].data,
                         layer_used |-> TAVILY,
                         confidence |-> "high",
                         needs_verification |-> FALSE])

C10_Witness ==
    /\ Done
    /\ ~Forced
    /\ complexity = "simple"
    /\ GaveData(1)
    /\ queried[1].data.summary = 40
    /\ GaveData(2)
    /\ result.success
    /\ result.layer_used = TAVILY
    /\ result.data = queried[2].data

(***************************************************************************)
(* C11.  Moderate query, no force_layer: confidence high only when both    *)
(* PRIMARY and DEEP returned data, confidence medium only when exactly one *)
(* of them did, and never high with the data of one source only.           *)
(***************************************************************************)
C11_ModerateConfidenceLaw ==
    Done /\ ~Forced /\ complexity = "moderate" =>
        /\ Len(queried) = 2
        /\ (result.confidence = "high" => GaveData(1) /\ GaveData(2))
        /\ (result.confidence = "medium" => (GaveData(1) <=> ~GaveData(2)))
        /\ (~(GaveData(1) /\ GaveData(2)) => result.confidence # "high")

C11_Witness ==
    /\ Done
    /\ ~Forced
    /\ complexity = "moderate"
    /\ ~GaveData(1)
    /\ GaveData(2)
    /\ result.confidence = "medium"

(***************************************************************************)
(* C12.  Moderate query, no force_layer: when PRIMARY returns data and     *)
(* DEEP returns none the result is success with PRIMARY's payload,         *)
(* layer_used = PRIMARY, confidence medium, needs_verification true; a     *)
(* moderate result built from PRIMARY alone never has needs_verification   *)
(* false.                                                                  *)
(***************************************************************************)
C12_ModeratePrimaryOnly ==
    Done /\ ~Forced /\ complexity = "moderate" =>
        /\ (GaveData(1) /\ ~GaveData(2) =>
               result = [kind |-> "FactRetrievalResult",
                         success |-> TRUE,
                         data |-> queried[1].data,
                         layer_used |-> WIKIPEDIA,
                         confidence |-> "medium",
                         needs_verification |-> TRUE])
        /\ (result.success /\ result.layer_used = WIKIPEDIA =>
               result.needs_verification = TRUE)

C12_Witness ==
    /\ Done
    /\ ~Forced
    /\ complexity = "moderate"
    /\ GaveData(1)
    /\ queried[2].layer = TAVILY
    /\ ~GaveData(2)
    /\ result.layer_used = WIKIPEDIA
    /\ result.needs_verification

(***************************************************************************)
(* C13.  Moderate query, no force_layer: when PRIMARY and DEEP both return *)
(* data the payload is {primary: PRIMARY's payload, synthesis: DEEP's      *)
(* payload, combined: true}, with success, layer_used = DEEP, confidence   *)
(* high, needs_verification false.                                         *)
(***************************************************************************)
C13_ModerateCombined ==
    Done /\ ~Forced /\ complexity = "moderate" /\ GaveData(1) /\ GaveData(2) =>
        result = [kind |-> "FactRetrievalResult",
                  success |-> TRUE,
                  data |-> [kind |-> "dict",
                            keys |-> {"primary", "synthesis", "combined"},
                            primary |-> queried[1].data,
                            synthesis |-> queried[2].data,
                            combined |-> TRUE],
                  layer_used |-> TAVILY,
                  confidence |-> "high",
                  needs_verification |-> FALSE]

C13_Witness ==
    /\ Done
    /\ ~Forced
    /\ complexity = "moderate"
    /\ queried[1].layer = WIKIPEDIA
    /\ GaveData(1)
    /\ queried[2].layer = TAVILY
    /\ GaveData(2)
    /\ result.data.combined

(***************************************************************************)
(* C14.  Complex query, no force_layer: PRIMARY and then DEEP are queried, *)
(* each exactly once, whatever either returns.                             *)
(***************************************************************************)
C14_ComplexQueriesBoth ==
    Adaptive /\ complexity = "complex" =>
        /\ (pc = "complex" => queried = <<>>)
        /\ (pc = "complex_tavily" =>
               Len(queried) = 1 /\ queried[1].layer = WIKIPEDIA)
        /\ (pc \in {"fallback", "done"} =>
               /\ Len(queried) = 2
               /\ queried[1].layer = WIKIPEDIA
               /\ queried[2].layer = TAVILY)
        /\ pc \in {"complex", "complex_tavily", "fallback", "done"}

C14_Witness ==
    /\ Done
    /\ ~Forced
    /\ complexity = "complex"
    /\ queried[1].layer = WIKIPEDIA
    /\ ~GaveData(1)
    /\ queried[2].layer = TAVILY
    /\ ~GaveData(2)

(***************************************************************************)
(* C15.  Complex query, no force_layer: when DEEP returns data the result  *)
(* is success with layer_used = DEEP, confidence high, needs_verification  *)
(* false and a combined payload whose primary part is PRIMARY's payload,   *)
(* or the empty dict when PRIMARY returned no data.                        *)
(***************************************************************************)
C15_ComplexDeepSucceeds ==
    Done /\ ~Forced /\ complexity = "complex" /\ GaveData(2) =>
        result = [kind |-> "FactRetrievalResult",
                  success |-> TRUE,
                  data |-> [kind |-> "dict",
                            keys |-> {"primary", "synthesis", "combined"},
                            primary |-> (IF GaveData(1) THEN queried[1].data
                                                        ELSE EmptyDict),
                            synthesis |-> queried[2].data,
                            combined |-> TRUE],
                  layer_used |-> TAVILY,
                  confidence |-> "high",
                  needs_verification |-> FALSE]

C15_Witness ==
    /\ Done
    /\ ~Forced
    /\ complexity = "complex"
    /\ ~GaveData(1)
    /\ GaveData(2)
    /\ result.success
    /\ result.data.primary = EmptyDict
    /\ result.confidence = "high"

(***************************************************************************)
(* C16.  Complex query, no force_layer: when DEEP returns no data and      *)
(* PRIMARY returned data the result is success with PRIMARY's payload,     *)
(* layer_used = PRIMARY, confidence low, needs_verification true.          *)
(***************************************************************************)
C16_ComplexPrimaryOnly ==
    Done /\ ~Forced /\ complexity = "complex" /\ GaveData(1) /\ ~GaveData(2) =>
        result = [kind |-> "FactRetrievalResult",
                  success |-> TRUE,
                  data |-> queried[1].data,
                  layer_used |-> WIKIPEDIA,
                  confidence |-> "low",
                  needs_verification |-> TRUE]

C16_Witness ==
    /\ Done
    /\ ~Forced
    /\ complexity = "complex"
    /\ GaveData(1)
    /\ queried[2].layer = TAVILY
    /\ queried[2].exc = "Timeout"
    /\ result.success
    /\ result.confidence = "low"

(***************************************************************************)
(* C17.  Within one invocation no source is queried more than once, on     *)
(* every path and whatever the sources return.                             *)
(***************************************************************************)
C17_NoSourceQueriedTwice ==
    \A i, j \in DOMAIN queried : i # j => queried[i].layer # queried[j].layer

C17_Witness ==
    /\ Done
    /\ ~Forced
    /\ complexity = "moderate"
    /\ Len(queried) = 2
    /\ queried[1].layer = WIKIPEDIA
    /\ queried[1].exc = "HTTPError"
    /\ queried[2].layer = TAVILY
    /\ ~GaveData(2)
    /\ ~result.success

(***************************************************************************)
(* C18.  determine_complexity is complex when the lower-cased query        *)
(* contains a complex trigger substring, also when it contains a simple    *)
(* one; otherwise simple when it contains a simple trigger substring;      *)
(* otherwise moderate.  The context argument never changes the result.     *)
(***************************************************************************)
C18_ClassifyPrecedence ==
    pc \in {"force", "simple", "moderate", "complex"} =>
        LET lowered == query_lower(query)
            hasComplex ==
                \E t \in complex_indicators : IsSubstring(Chars(t), lowered)
            hasSimple ==
                \E t \in simple_indicators : IsSubstring(Chars(t), lowered)
        IN  /\ (hasComplex => complexity = "complex")
            /\ (~hasComplex /\ hasSimple => complexity = "simple")
            /\ (~hasComplex /\ ~hasSimple => complexity = "moderate")
            /\ \A c \in Contexts : determine_complexity(query, c) = complexity

C18_Witness ==
    /\ pc = "complex"
    /\ query = <<"What is", "RECENTLY">>
    /\ context = [kind |-> "dict", keys |-> {"complexity"}, complexity |-> "simple"]
    /\ complexity = "complex"

(***************************************************************************)
(* C19.  Two calls with the same query and no force_layer, to which every  *)
(* source queried in both calls returns the same, return results equal in  *)
(* every field.                                                            *)
(***************************************************************************)
SameResponses ==
    \A i \in DOMAIN queried, j \in DOMAIN previous.returned :
        queried[i].layer = previous.returned[j].layer
            => queried[i].data = previous.returned[j].data

C19_RepeatedCallSameResult ==
    Done /\ previous # None /\ ~Forced /\ query = previous.query /\ SameResponses =>
        /\ result.success = previous.result.success
        /\ result.data = previous.result.data
        /\ result.layer_used = previous.result.layer_used
        /\ result.confidence = previous.result.confidence
        /\ result.needs_verification = previous.result.needs_verification

C19_Witness ==
    /\ Done
    /\ previous # None
    /\ ~Forced
    /\ query = previous.query
    /\ Len(queried) = 2
    /\ Returns(queried) = previous.returned
    /\ ~result.success
    /\ result = previous.result

(***************************************************************************)
(* C20.  However the steps of concurrently running invocations interleave, *)
(* each invocation returns the result it would return running alone with   *)
(* the same answers from the backends, and the locals of an invocation     *)
(* hold what the backends returned to that invocation: no two invocations  *)
(* share a frame.                                                          *)
(***************************************************************************)
C20_ConcurrentInvocationsIndependent ==
    \A t \in Threads :
        /\ \A u \in Threads : u # t => Frame(u) # Frame(t)
        /\ (threads[t].pc \in {"simple_tavily", "moderate_verify", "moderate_direct",
                               "complex_tavily", "fallback"} =>
               frames[Frame(t)].wiki_data = threads[t].returned.wikipedia)
        /\ (threads[t].pc = "fallback" =>
               frames[Frame(t)].tavily_data = threads[t].returned.tavily)
        /\ (threads[t].pc = "done" =>
               threads[t].result = AloneResult(threads[t].force_layer,
                                               threads[t].complexity,
                                               threads[t].returned))

\* Two invocations inside retrieve_facts at once, each between its two
\* backend calls, with different data from PRIMARY in their frames.
C20_Witness ==
    /\ threads[1].pc = "moderate_verify"
    /\ InFlight(threads[1])
    /\ frames[Frame(1)].wiki_data.summary = 250
    /\ threads[2].pc = "complex_tavily"
    /\ InFlight(threads[2])
    /\ frames[Frame(2)].wiki_data = None
    /\ threads[2].returned.wikipedia = None

C26_PrimaryFirstAndOnce ==
    Adaptive =>
        /\ BRAVE \notin LayersQueried
        /\ (pc \in {"simple", "moderate", "complex"} <=> queried = <<>>)
        /\ (Len(queried) >= 1 => queried[1].layer = WIKIPEDIA)
        /\ \A i \in DOMAIN queried : i > 1 => queried[i].layer = TAVILY

C26_Witness ==
    /\ Done
    /\ ~Forced
    /\ complexity = "simple"
    /\ Len(queried) = 2
    /\ queried[1].layer = WIKIPEDIA
    /\ queried[2].layer = TAVILY
    /\ result.success

(***************************************************************************)
(* C27.  Without force_layer, DEEP is queried exactly once, unless the     *)
(* query is simple and PRIMARY returned a summary longer than 100          *)
(* characters, and then DEEP is not queried.                               *)
(***************************************************************************)
DeepQueries == Cardinality({i \in DOMAIN queried : queried[i].layer = TAVILY})

C27_DeepQueriedOnceUnlessSufficient ==
    Done /\ ~Forced =>
        IF complexity = "simple" /\ GaveData(1) /\ queried[1].data.summary > 100
        THEN DeepQueries = 0
        ELSE DeepQueries = 1

C27_Witness ==
    /\ Done
    /\ ~Forced
    /\ complexity = "moderate"
    /\ ~GaveData(1)
    /\ DeepQueries = 1
    /\ result.success

(***************************************************************************)
(* C28.  Without force_layer, needs_verification is true exactly when DEEP *)
(* was queried and returned no data.                                       *)
(***************************************************************************)
C28_UnverifiedIffDeepFailed ==
    Done /\ ~Forced =>
        (result.needs_verification <=>
            \E i \in DOMAIN queried : queried[i].layer = TAVILY /\ ~GaveData(i))

C28_Witness ==
    /\ Done
    /\ ~Forced
    /\ complexity = "complex"
    /\ GaveData(1)
    /\ queried[2].layer = TAVILY
    /\ ~GaveData(2)
    /\ result.success
    /\ result.needs_verification

(***************************************************************************)
(* C29.  Every result of a call with force_layer set has                   *)
(* needs_verification = false, whether the forced source returned data or  *)
(* not.                                                                    *)
(***************************************************************************)
C29_ForcedNeverUnverified ==
    Done /\ Forced => result.needs_verification = FALSE

C29_Witness ==
    /\ Done
    /\ force_layer = TAVILY
    /\ ~GaveData(1)
    /\ ~result.success
    /\ ~result.needs_verification

(***************************************************************************)
(* Vocabulary of the properties of format_for_llm.                         *)
(***************************************************************************)
Formatted == pc = "formatted"
HasPiece(kind) ==
    \E k \in DOMAIN formatted.text : formatted.text[k].kind = kind
HasWarning == HasPiece("WARNING: This data needs additional verification.")
HasPrimarySection == HasPiece("Primary Source (Wikipedia):")
HasSynthesisSection == HasPiece("Synthesis (Tavily):")
CombinedInput ==
    /\ Formatted
    /\ formatted.input.success
    /\ {"primary", "synthesis", "combined"} \subseteq formatted.input.data.keys
\* The formatted result is the one retrieve_facts has just returned.
FromRetrieveFacts == Formatted /\ result # None

(***************************************************************************)
(* C22.  format_for_llm returns exactly the empty string for every result  *)
(* with success = false, whatever the other fields hold.                   *)
(***************************************************************************)
C22_FailureFormatsEmpty ==
    Formatted /\ ~formatted.input.success => formatted.text = <<>>

C22_Witness ==
    /\ Formatted
    /\ ~formatted.input.success
    /\ formatted.input.data \in TavilyPayloads
    /\ formatted.input.needs_verification
    /\ formatted.input.confidence = "high"
    /\ formatted.text = <<>>

(***************************************************************************)
(* C23.  For every result with success = true, the text format_for_llm     *)
(* returns contains the verification warning line if and only if           *)
(* needs_verification is true.                                             *)
(***************************************************************************)
C23_WarningIffNeedsVerification ==
    Formatted /\ formatted.input.success =>
        (HasWarning <=> formatted.input.needs_verification)

C23_Witness ==
    /\ FromRetrieveFacts
    /\ formatted.input.success
    /\ formatted.input.needs_verification
    /\ formatted.input.confidence = "low"
    /\ HasWarning

(***************************************************************************)
(* C24 as stated.  For every successful result whose payload is the        *)
(* combined {primary, synthesis, combined: true} structure, the text       *)
(* contains both a labelled primary-source section and a labelled          *)
(* synthesis section.                                                      *)
(***************************************************************************)
C24_BothSectionsAlways ==
    CombinedInput => HasPrimarySection /\ HasSynthesisSection

(***************************************************************************)
(* C24 as amended.  For every successful result with the combined payload, *)
(* the text has the labelled primary-source section exactly when the       *)
(* payload's primary part is non-empty and the labelled synthesis section  *)
(* exactly when its synthesis part is non-empty; the combined payloads     *)
(* retrieve_facts produces always get the synthesis section, and the       *)
(* primary-source section unless PRIMARY returned no data.                 *)
(***************************************************************************)
C24_SectionsOfNonEmptyParts ==
    CombinedInput =>
        /\ HasPrimarySection <=> Truthy(formatted.input.data.primary)
        /\ HasSynthesisSection <=> Truthy(formatted.input.data.synthesis)
        /\ FromRetrieveFacts =>
              /\ HasSynthesisSection
              /\ HasPrimarySection <=> GaveData(1)

C24_Witness ==
    /\ CombinedInput
    /\ FromRetrieveFacts
    /\ complexity = "complex"
    /\ ~GaveData(1)
    /\ ~HasPrimarySection
    /\ HasSynthesisSection

(***************************************************************************)
(* C25.  The compiled workflow graph is a straight chain from topic_node   *)
(* through sub_topic_node, slide_planner, blueprint_mapper, narration_node,*)
(* content_generation_node and intro_narration_node to END: every node has *)
(* exactly one successor, the nodes run in that order and none runs twice, *)
(* and a run in which every node returns terminates at END.                *)
(***************************************************************************)
Chain ==
    <<"topic_node", "sub_topic_node", "slide_planner", "blueprint_mapper",
      "narration_node", "content_generation_node", "intro_narration_node">>

StraightChain ==
    /\ \A n \in Nodes : Cardinality(Successors(n)) = 1
    /\ Len(ran) <= Len(Chain)
    /\ \A k \in DOMAIN ran : ran[k] = Chain[k]
    /\ (run_pc = "running" => active = {Chain[Len(ran) + 1]})
    /\ (run_pc = "ended" => ran = Chain)
    /\ run_pc # "recursion_limit"

C25_StraightChainReachesEnd ==
    /\ []StraightChain
    /\ (run_pc = "running" ~> run_pc \in {"ended", "raised"})

C25_Witness ==
    /\ run_pc = "ended"
    /\ ran = Chain
    /\ "messages" \in tutor_state
    /\ "subtopic_intro_narrations" \in tutor_state

(***************************************************************************)
(* C30.  Provided the model calls return, generate_narrations_batch        *)
(* returns one entry per input slide, in input order: a slide whose batch  *)
(* narration is missing or shorter than 80 words has an individually       *)
(* generated narration, a slide whose batch narration has 80 words or more *)
(* keeps it, and when the batch response cannot be parsed or processed     *)
(* every entry is generated individually and none comes from the abandoned *)
(* pass.                                                                   *)
(***************************************************************************)
FromFallback(k) == results[k].regenerated = "absent"
BatchPassEntry(k) ==
    IF k <= Len(batch.narrations) /\ ~TooShort(batch.narrations[k].words)
    THEN /\ results[k].narration_text = BatchText(k, batch.narrations[k].words)
         /\ results[k].regenerated = "False"
    ELSE /\ results[k].narration_text.by \in {"individual", "template", "empty"}
         /\ results[k].regenerated = "True"
BatchProcessed ==
    /\ batch.kind = "object"
    /\ \A k \in DOMAIN slides :
          k <= Len(batch.narrations) => batch.narrations[k].kind = "dict"

C30_OneEntryPerSlide ==
    /\ (nar_pc = "raised" => llm_raised)
    /\ (nar_pc = "returned" =>
          /\ Len(results) = Len(slides)
          /\ \A k \in DOMAIN results : results[k].slide = slides[k]
          /\ \/ \A k \in DOMAIN results : FromFallback(k)
             \/ BatchProcessed /\ \A k \in DOMAIN results : BatchPassEntry(k)
          /\ (~BatchProcessed /\ slides # <<>> =>
                \A k \in DOMAIN results : FromFallback(k)))

====
